---- MODULE Spec2Model ----
(***************************************************************************)
(* Pivot calibration ("Algebraic Two Step"), pivot_calibration.py.         *)
(*                                                                         *)
(* A calibrator is built over a list of flange poses BFi = [Ri, ti].  At   *)
(* construction it snapshots all pairs of poses; a call stacks             *)
(*      [Ri - Rj] Ft = [tj - ti]                                           *)
(* over the pairs, solves for Ft with the Moore-Penrose pseudoinverse and  *)
(* then averages BFi * Ft over the pose list to obtain Bt.                 *)
(*                                                                         *)
(* Numbers: numpy computes in IEEE doubles.  Here every quantity is an     *)
(* exact rational (an integer numerator vector over a positive integer     *)
(* denominator, in lowest terms), and orientations are drawn from integer  *)
(* rotation matrices, so "equal within floating-point tolerance" reads as  *)
(* exact equality.  Lengths are in units of 0.05, which makes the ground   *)
(* truth of _test, bt = (0.5, 0.6, 0.7) and ft = (0.1, 0.05, 0.15), the    *)
(* integer vectors (10, 12, 14) and (2, 1, 3).                             *)
(***************************************************************************)
EXTENDS Integers, Sequences, FiniteSets, TLC

\* ------------------------------------------------------------------ bounds
\* Largest number of poses _test generates (its parameter n ranges 0..MaxPoses).
MaxPoses == 3
\* Largest number of times one instance is called.
MaxCalls == 2
\* Largest number of appends/removes the caller makes to its pose list.
MaxMut == 1
\* Largest number of poses in a list the caller goes on to edit.
MutPoses == 2

\* The calibrator instances built over the one pose list.
Inst == {1, 2}

\* ------------------------------------------------------- integer 3-vectors
Dim == 1..3

VecAdd(u, v) == <<u[1] + v[1], u[2] + v[2], u[3] + v[3]>>
VecSub(u, v) == <<u[1] - v[1], u[2] - v[2], u[3] - v[3]>>
VecScale(k, v) == <<k * v[1], k * v[2], k * v[3]>>
Dot(u, v) == u[1] * v[1] + u[2] * v[2] + u[3] * v[3]
ZeroVec == <<0, 0, 0>>

\* 3x3 matrices are sequences of three rows.
MatVec(R, v) == <<Dot(R[1], v), Dot(R[2], v), Dot(R[3], v)>>
MatSub(R, S) == <<VecSub(R[1], S[1]), VecSub(R[2], S[2]), VecSub(R[3], S[3])>>
Col(S, c) == <<S[1][c], S[2][c], S[3][c]>>
MatT(S) == <<Col(S, 1), Col(S, 2), Col(S, 3)>>
MatMul(R, S) == LET T == MatT(S) IN <<MatVec(T, R[1]), MatVec(T, R[2]), MatVec(T, R[3])>>
Ident == <<<<1, 0, 0>>, <<0, 1, 0>>, <<0, 0, 1>>>>
ZeroMat == <<ZeroVec, ZeroVec, ZeroVec>>

Abs(x) == IF x < 0 THEN -x ELSE x

RECURSIVE Gcd(_, _)
Gcd(a, b) == IF b = 0 THEN Abs(a) ELSE Gcd(b, a % Abs(b))

\* ------------------------------------------------------ rational 3-vectors
\* A float vector: num / den, den > 0, in lowest terms.
RatVec(num, den) ==
    LET s == IF den < 0 THEN -1 ELSE 1
        g == Gcd(Gcd(Gcd(num[1], num[2]), num[3]), den)
    IN [num |-> <<(s * num[1]) \div g, (s * num[2]) \div g, (s * num[3]) \div g>>,
        den |-> (s * den) \div g]

IntVec(v) == [num |-> v, den |-> 1]

RatAdd(u, v) ==
    RatVec(VecAdd(VecScale(v.den, u.num), VecScale(u.den, v.num)), u.den * v.den)

RatDiv(u, k) == RatVec(u.num, u.den * k)

\* ------------------------------------------------------------ math3d poses
\* m3d.Orientation values the generator can draw: the identity, quarter and
\* half turns about z and a quarter turn about x.
Rz90 == <<<<0, -1, 0>>, <<1, 0, 0>>, <<0, 0, 1>>>>
Rz180 == <<<<-1, 0, 0>>, <<0, -1, 0>>, <<0, 0, 1>>>>
Rx90 == <<<<1, 0, 0>>, <<0, 0, -1>>, <<0, 1, 0>>>>
Rots == {Ident, Rz90, Rz180, Rx90}

\* Values of the noise vector added to ft by the generator; zero is noiseless.
NoiseSet == {ZeroVec, <<1, 0, -1>>}

\* Ground truth of _test.
TrueBt == <<10, 12, 14>>
TrueFt == <<2, 1, 3>>

\* m3d.Transform(o, p): id is the identity of the Python object.
Transform(id, o, p) == [id |-> id, orient |-> o, pos |-> p]

\* One generated pose: p = bt - o * (ft + noise).
GenPose(id, o, noise) ==
    Transform(id, o, VecSub(TrueBt, MatVec(o, VecAdd(TrueFt, noise))))

\* bfi * v for a float vector v: rotate, then translate.
Apply(bf, v) ==
    RatVec(VecAdd(MatVec(bf.orient, v.num), VecScale(v.den, bf.pos)), v.den)

\* ------------------------------------------------------ itertools and numpy
\* Mutant: combinations_with_replacement, which also pairs a pose with itself.
combinations_with_replacement(pool) ==
    LET m == Len(pool)
        RECURSIVE Row(_, _)
        Row(i, j) == IF j > m THEN <<>>
                     ELSE <<<<pool[i], pool[j]>>>> \o Row(i, j + 1)
        RECURSIVE From(_)
        From(i) == IF i > m THEN <<>> ELSE Row(i, i) \o From(i + 1)
    IN From(1)

\* Mutant: pairs of poses that compare equal are left out.
combinations_distinct(pool) ==
    LET m == Len(pool)
        Same(x, y) == x.orient = y.orient /\ x.pos = y.pos
        RECURSIVE Row(_, _)
        Row(i, j) == IF j > m THEN <<>>
                     ELSE (IF Same(pool[i], pool[j]) THEN <<>> ELSE <<<<pool[i], pool[j]>>>>)
                          \o Row(i, j + 1)
        RECURSIVE From(_)
        From(i) == IF i >= m THEN <<>> ELSE Row(i, i + 1) \o From(i + 1)
    IN From(1)

\* list(combinations(pool, 2)): pairs of elements by position, i < j,
\* in lexicographic order of the positions.
combinations(pool) ==
    LET m == Len(pool)
        RECURSIVE Row(_, _)
        Row(i, j) == IF j > m THEN <<>>
                     ELSE <<<<pool[i], pool[j]>>>> \o Row(i, j + 1)
        RECURSIVE From(_)
        From(i) == IF i >= m THEN <<>> ELSE Row(i, i + 1) \o From(i + 1)
    IN From(1)

\* np.vstack of a non-empty list of blocks: the rows of the blocks, in order.
RECURSIVE vstack(_)
vstack(blocks) ==
    IF blocks = <<>> THEN <<>> ELSE Head(blocks) \o vstack(Tail(blocks))

\* v.reshape((3, 1)): a column, three rows of one entry.
Column(v) == <<<<v[1]>>, <<v[2]>>, <<v[3]>>>>

RECURSIVE SumSeq(_)
SumSeq(xs) == IF xs = <<>> THEN 0 ELSE Head(xs) + SumSeq(Tail(xs))

\* A^T A for an m x 3 matrix A.
GramEntry(A, r, c) == SumSeq([k \in 1..Len(A) |-> A[k][r] * A[k][c]])
GramRow(A, r) == <<GramEntry(A, r, 1), GramEntry(A, r, 2), GramEntry(A, r, 3)>>
Gram(A) == <<GramRow(A, 1), GramRow(A, 2), GramRow(A, 3)>>

Trace(M) == M[1][1] + M[2][2] + M[3][3]

\* Sum of the principal 2x2 minors.
Minors2(M) ==
    (M[1][1] * M[2][2] - M[1][2] * M[2][1])
    + (M[1][1] * M[3][3] - M[1][3] * M[3][1])
    + (M[2][2] * M[3][3] - M[2][3] * M[3][2])

Det(M) ==
    M[1][1] * (M[2][2] * M[3][3] - M[2][3] * M[3][2])
    - M[1][2] * (M[2][1] * M[3][3] - M[2][3] * M[3][1])
    + M[1][3] * (M[2][1] * M[3][2] - M[2][2] * M[3][1])

MatScale(k, M) == <<VecScale(k, M[1]), VecScale(k, M[2]), VecScale(k, M[3])>>
MatAdd(R, S) == <<VecAdd(R[1], S[1]), VecAdd(R[2], S[2]), VecAdd(R[3], S[3])>>

\* Mutant: the normal-equation inverse adj(M) / det(M), with the division
\* skipped when det(M) = 0.
pinv_NormalEquations(A) ==
    LET M == Gram(A)
        c3 == Det(M)
        Q == MatAdd(MatSub(MatMul(M, M), MatScale(Trace(M), M)), MatScale(Minors2(M), Ident))
        PRow(q) == [k \in 1..Len(A) |-> Dot(q, A[k])]
    IN [num |-> <<PRow(Q[1]), PRow(Q[2]), PRow(Q[3])>>, den |-> IF c3 # 0 THEN c3 ELSE 1]

\* np.linalg.pinv(A) for an m x 3 matrix A, as a 3 x m integer matrix over a
\* denominator.  pinv(A) = (A^T A)^+ A^T.  M = A^T A is symmetric positive
\* semidefinite; with c1, c2, c3 the coefficients of its characteristic
\* polynomial its rank r is the largest r with cr # 0, and on its range
\* (which holds the columns of A^T) its inverse is
\*     r = 3: (M^2 - c1 M + c2 I) / c3      r = 2: (c1 I - M) / c2
\*     r = 1: I / c1                        r = 0: 0
\* (the singular values numpy cuts off are exactly the zero ones).
pinv(A) ==
    LET M == Gram(A)
        c1 == Trace(M)
        c2 == Minors2(M)
        c3 == Det(M)
        Q == IF c3 # 0
             THEN MatAdd(MatSub(MatMul(M, M), MatScale(c1, M)), MatScale(c2, Ident))
             ELSE IF c2 # 0 THEN MatSub(MatScale(c1, Ident), M)
             ELSE IF c1 # 0 THEN Ident
             ELSE ZeroMat
        d == IF c3 # 0 THEN c3 ELSE IF c2 # 0 THEN c2 ELSE IF c1 # 0 THEN c1 ELSE 1
        PRow(q) == [k \in 1..Len(A) |-> Dot(q, A[k])]
    IN [num |-> <<PRow(Q[1]), PRow(Q[2]), PRow(Q[3])>>, den |-> d]

\* P.dot(b).reshape(-1) for P = pinv(A) and an m x 1 column b.
dot(P, b) ==
    LET Row(r) == SumSeq([k \in 1..Len(b) |-> P.num[r][k] * b[k][1]])
    IN RatVec(<<Row(1), Row(2), Row(3)>>, P.den)

\* np.average(vs, axis=0) of a non-empty list of float vectors.
RECURSIVE RatSum(_)
RatSum(vs) ==
    IF vs = <<>> THEN IntVec(ZeroVec) ELSE RatAdd(Head(vs), RatSum(Tail(vs)))

average(vs) == RatDiv(RatSum(vs), Len(vs))

\* ------------------------------------------------------------------- state
VARIABLES
    bfs,          \* the caller's pose list (base_flange_s); every _bfs aliases it
    nmut,         \* number of appends/removes the caller has made
    constructed,  \* constructed[p]: __init__ has run for instance p
    _combs,       \* _combs[p]: the pair list of instance p
    ft,           \* ft[p]: <<>> while the attribute is absent, else <<value>>
    bt,           \* bt[p]: likewise
    A,            \* A[p]: the matrix assembled by the last call that got that far
    b,            \* b[p]: its right-hand side
    outcome,      \* outcome[p]: how the last call of p ended
    first,        \* first[p]: how the first call of p ended
    calls,        \* calls[p]: number of calls made on p
    bfs0          \* bfs0[p]: the pose list as it was when p was constructed

vars == <<bfs, nmut, constructed, _combs, ft, bt, A, b, outcome, first, calls, bfs0>>

NoCall == [kind |-> "none", exc |-> "", val |-> <<>>]
Raise(e) == [kind |-> "raise", exc |-> e, val |-> <<>>]
Return(f, t) == [kind |-> "return", exc |-> "", val |-> <<f, t>>]

\* The lists _test can build: n poses, each from a drawn orientation and noise.
GenLists ==
    UNION {[1..n -> Rots \X NoiseSet] : n \in 0..MaxPoses}

Init ==
    /\ \E g \in GenLists :
         bfs = [i \in DOMAIN g |-> GenPose(i, g[i][1], g[i][2])]
    /\ nmut = 0
    /\ constructed = [p \in Inst |-> FALSE]
    /\ _combs = [p \in Inst |-> <<>>]
    /\ ft = [p \in Inst |-> <<>>]
    /\ bt = [p \in Inst |-> <<>>]
    /\ A = [p \in Inst |-> <<>>]
    /\ b = [p \in Inst |-> <<>>]
    /\ outcome = [p \in Inst |-> NoCall]
    /\ first = [p \in Inst |-> NoCall]
    /\ calls = [p \in Inst |-> 0]
    /\ bfs0 = [p \in Inst |-> <<>>]

Reverse(xs) == [k \in 1..Len(xs) |-> xs[Len(xs) + 1 - k]]

\* Mutant: construction reverses the caller's list in place before pairing.
Construct_Reversing(p) ==
    /\ ~constructed[p]
    /\ constructed' = [constructed EXCEPT ![p] = TRUE]
    /\ bfs' = Reverse(bfs)
    /\ _combs' = [_combs EXCEPT ![p] = combinations(Reverse(bfs))]
    /\ bfs0' = [bfs0 EXCEPT ![p] = bfs]
    /\ UNCHANGED <<nmut, ft, bt, A, b, outcome, first, calls>>

\* PivotCalibrator(base_flange_s)
Construct(p) ==
    /\ ~constructed[p]
    /\ constructed' = [constructed EXCEPT ![p] = TRUE]
    /\ _combs' = [_combs EXCEPT ![p] = combinations(bfs)]
    /\ bfs0' = [bfs0 EXCEPT ![p] = bfs]
    /\ UNCHANGED <<bfs, nmut, ft, bt, A, b, outcome, first, calls>>

\* Mutant: the blocks bfj.orient - bfi.orient.
AssembleA_Reversed(cs) ==
    vstack([k \in 1..Len(cs) |-> MatSub(cs[k][2].orient, cs[k][1].orient)])

\* The matrix A of a call: the blocks bfi.orient - bfj.orient over the pairs.
AssembleA(cs) ==
    vstack([k \in 1..Len(cs) |-> MatSub(cs[k][1].orient, cs[k][2].orient)])

\* Mutant: the blocks bfi.pos - bfj.pos, the same index order as in A.
Assembleb_Swapped(cs) ==
    vstack([k \in 1..Len(cs) |-> Column(VecSub(cs[k][1].pos, cs[k][2].pos))])

\* The column b of a call: the blocks bfj.pos - bfi.pos over the pairs.
Assembleb(cs) ==
    vstack([k \in 1..Len(cs) |-> Column(VecSub(cs[k][2].pos, cs[k][1].pos))])

\* Mutant: the solution is added to the ft kept from the previous call.
Solve_Accumulating(p) ==
    LET x == dot(pinv(AssembleA(_combs[p])), Assembleb(_combs[p]))
    IN IF ft[p] = <<>> THEN x ELSE RatAdd(ft[p][1], x)

\* ft of a call on p: pinv(A).dot(b), from the stored pairs only.
Solve(p) == dot(pinv(AssembleA(_combs[p])), Assembleb(_combs[p]))

\* Mutant: __init__ keeps a copy of the list, list(base_flange_s).
PosesAveraged_Snapshot(p) == bfs0[p]

\* self._bfs at the time of a call: the caller's list itself, not a copy.
PosesAveraged(p) == bfs

\* Mutant: the last pose of the list is left out of the average.
Pivot_DropLast(poses, f) ==
    LET m == IF Len(poses) > 1 THEN Len(poses) - 1 ELSE Len(poses)
    IN average([i \in 1..m |-> Apply(poses[i], f)])

\* The pivot: the average of bfi * ft over the pose list.
Pivot(poses, f) == average([i \in 1..Len(poses) |-> Apply(poses[i], f)])

\* Mutant: an empty pair list gives the zero solution, so that a call on an
\* empty pose list fails only at the average, after ft has been stored.
Call_LateFailure(p) ==
    /\ constructed[p]
    /\ calls[p] < MaxCalls
    /\ calls' = [calls EXCEPT ![p] = @ + 1]
    /\ \E f \in {IF _combs[p] = <<>> THEN IntVec(ZeroVec) ELSE Solve(p)} :
          /\ A' = [A EXCEPT ![p] = AssembleA(_combs[p])]
          /\ b' = [b EXCEPT ![p] = Assembleb(_combs[p])]
          /\ ft' = [ft EXCEPT ![p] = <<f>>]
          /\ IF bfs = <<>>
             THEN /\ outcome' = [outcome EXCEPT ![p] = Raise("ValueError")]
                  /\ first' = IF calls[p] = 0
                              THEN [first EXCEPT ![p] = Raise("ValueError")] ELSE first
                  /\ UNCHANGED bt
             ELSE \E t \in {Pivot(bfs, f)} :
                     /\ bt' = [bt EXCEPT ![p] = <<t>>]
                     /\ outcome' = [outcome EXCEPT ![p] = Return(f, t)]
                     /\ first' = IF calls[p] = 0
                                 THEN [first EXCEPT ![p] = Return(f, t)] ELSE first
    /\ UNCHANGED <<bfs, nmut, constructed, _combs, bfs0>>

\* pc()
Call(p) ==
    /\ constructed[p]
    /\ calls[p] < MaxCalls
    /\ calls' = [calls EXCEPT ![p] = @ + 1]
    /\ IF _combs[p] = <<>>
       THEN \* np.vstack of an empty list raises ValueError, at the first statement
            /\ outcome' = [outcome EXCEPT ![p] = Raise("ValueError")]
            /\ first' = IF calls[p] = 0
                        THEN [first EXCEPT ![p] = Raise("ValueError")] ELSE first
            /\ UNCHANGED <<ft, bt, A, b>>
       ELSE \E f \in {Solve(p)} :
              \E t \in {Pivot(PosesAveraged(p), f)} :
                 /\ A' = [A EXCEPT ![p] = AssembleA(_combs[p])]
                 /\ b' = [b EXCEPT ![p] = Assembleb(_combs[p])]
                 /\ ft' = [ft EXCEPT ![p] = <<f>>]
                 /\ bt' = [bt EXCEPT ![p] = <<t>>]
                 /\ outcome' = [outcome EXCEPT ![p] = Return(f, t)]
                 /\ first' = IF calls[p] = 0
                             THEN [first EXCEPT ![p] = Return(f, t)] ELSE first
    /\ UNCHANGED <<bfs, nmut, constructed, _combs, bfs0>>

Next ==
    \/ \E p \in Inst : Construct(p)
    \/ \E p \in Inst : Call(p)

\* The documented use: the caller leaves its pose list alone.
Spec == Init /\ [][Next]_vars

\* ---------------------------------------------- a caller that edits its list
\* The caller appends a newly generated pose to its list (bfs.append).
ListAppend(o, noise) ==
    /\ nmut < MaxMut
    /\ nmut' = nmut + 1
    /\ bfs' = Append(bfs, GenPose(MaxPoses + 1 + nmut, o, noise))
    /\ UNCHANGED <<constructed, _combs, ft, bt, A, b, outcome, first, calls, bfs0>>

\* The caller deletes the pose at position i (del bfs[i]).  The list keeps at
\* least one pose: what numpy and math3d make of an average over no poses is
\* not decided by this program.
ListDelete(i) ==
    /\ nmut < MaxMut
    /\ Len(bfs) > 1
    /\ nmut' = nmut + 1
    /\ bfs' = [k \in 1..(Len(bfs) - 1) |-> IF k < i THEN bfs[k] ELSE bfs[k + 1]]
    /\ UNCHANGED <<constructed, _combs, ft, bt, A, b, outcome, first, calls, bfs0>>

\* The edited list starts as a noiseless one of at most MutPoses poses; noise
\* enters with appended poses.
InitMut ==
    /\ Init
    /\ Len(bfs) <= MutPoses
    /\ \A i \in 1..Len(bfs) : bfs[i] = GenPose(i, bfs[i].orient, ZeroVec)

\* One calibrator, the first, is followed while the caller edits the list.
NextMut ==
    \/ Construct(1)
    \/ Call(1)
    \/ \E o \in Rots, noise \in NoiseSet : ListAppend(o, noise)
    \/ \E i \in 1..Len(bfs) : ListDelete(i)

SpecMut == InitMut /\ [][NextMut]_vars

\* ------------------------------------------------------------ vocabulary
n == Len(bfs)
Called(p) == outcome[p].kind # "none"
Returned(p) == outcome[p].kind = "return"
Raised(p) == outcome[p].kind = "raise"

\* Directions: every axis of a rotation in Rots or of a product of two of them.
Dirs == {v \in {-1, 0, 1} \X {-1, 0, 1} \X {-1, 0, 1} : v # ZeroVec}

\* Two rotations with axes that are not parallel: neither is the identity and
\* no direction is fixed by both.
NonParallel(R, S) ==
    /\ R # Ident
    /\ S # Ident
    /\ ~\E v \in Dirs : MatVec(R, v) = v /\ MatVec(S, v) = v

\* The rotation from pose i to pose j, Ri^T Rj.
Rel(i, j) == MatMul(MatT(bfs[i].orient), bfs[j].orient)

\* Every pose was generated without noise: ti = Bt - Ri Ft.
Noiseless == \A i \in 1..n : bfs[i].pos = VecSub(TrueBt, MatVec(bfs[i].orient, TrueFt))

Truth == Return(IntVec(TrueFt), IntVec(TrueBt))

\* C1 as stated: with n >= 3 noiseless poses and two non-parallel rotation axes
\* among the Ri, a call returns the ground truth Ft and Bt.
C1_AxesOfPoses ==
    \A p \in Inst :
        (/\ Returned(p)
         /\ n >= 3
         /\ Noiseless
         /\ \E i, j \in 1..n : NonParallel(bfs[i].orient, bfs[j].orient))
        => outcome[p] = Truth

\* C1: with n >= 3 noiseless poses and two non-parallel axes among the relative
\* rotations Ri^T Rj, a call returns and stores the ground truth Ft and Bt; and
\* for any noiseless poses the ground truth Ft satisfies every stacked equation
\* (Ri - Rj) Ft = tj - ti.
C1_ExactRecovery ==
    \A p \in Inst :
        (Returned(p) /\ Noiseless) =>
            /\ \A k \in 1..Len(A[p]) : Dot(A[p][k], TrueFt) = b[p][k][1]
            /\ (/\ n >= 3
                /\ \E i, j, k, l \in 1..n : NonParallel(Rel(i, j), Rel(k, l)))
               => /\ outcome[p] = Truth
                  /\ ft[p] = <<IntVec(TrueFt)>>
                  /\ bt[p] = <<IntVec(TrueBt)>>

C1_Witness ==
    \E p \in Inst :
        /\ Returned(p)
        /\ Noiseless
        /\ n >= 3
        /\ \E i, j, k, l \in 1..n : NonParallel(Rel(i, j), Rel(k, l))
        /\ outcome[p] = Truth

\* --------------------------------------------------------------------- C2
\* C2 as stated: a call on a calibrator built over 0 or 1 pose fails with
\* InsufficientDataError and neither returns nor stores anything.
C2_InsufficientDataError ==
    \A p \in Inst :
        (Called(p) /\ Len(bfs0[p]) < 2) =>
            /\ outcome[p] = Raise("InsufficientDataError")
            /\ ft[p] = <<>>
            /\ bt[p] = <<>>

\* C2: a call on a calibrator built over 0 or 1 pose fails with the ValueError
\* of np.vstack and neither returns nor stores anything.
C2_ValueError ==
    \A p \in Inst :
        (Called(p) /\ Len(bfs0[p]) < 2) =>
            /\ outcome[p] = Raise("ValueError")
            /\ ft[p] = <<>>
            /\ bt[p] = <<>>

C2_Witness == \E p \in Inst : Len(bfs0[p]) = 1 /\ Raised(p)

\* --------------------------------------------------------------------- C3
\* Position of the pair (i, j), i < j, among the pairs of m poses in
\* lexicographic order.
PairIndex(i, j, m) == (i - 1) * m - ((i - 1) * i) \div 2 + (j - i)

Block(rows, k) == SubSeq(rows, 3 * k - 2, 3 * k)

\* C3: after a call, for every i < j the block of A at the lexicographic
\* position of (i, j) is Ri - Rj, the block of b at that same position is
\* tj - ti, and the stored pair there is (pose i, pose j).
C3_BlockAlignment ==
    \A p \in Inst :
        Returned(p) =>
            LET ps == bfs0[p]
            IN \A i, j \in 1..Len(ps) :
                 i < j =>
                    LET k == PairIndex(i, j, Len(ps))
                    IN /\ _combs[p][k] = <<ps[i], ps[j]>>
                       /\ Block(A[p], k) = MatSub(ps[i].orient, ps[j].orient)
                       /\ Block(b[p], k) = Column(VecSub(ps[j].pos, ps[i].pos))

C3_Witness ==
    \E p \in Inst :
        /\ Returned(p)
        /\ Len(bfs0[p]) >= 3
        /\ Block(A[p], 3) # ZeroMat
        /\ Block(b[p], 3) # Column(ZeroVec)
        /\ Block(A[p], 2) # Block(A[p], 3)

\* --------------------------------------------------------------------- C4
Choose2(m) == (m * (m - 1)) \div 2

\* C4: for n >= 2 poses the pair list has C(n,2) entries, every unordered pair
\* of distinct positions occurs in it exactly once, and after a call A has
\* 3 C(n,2) rows of 3 entries and b has 3 C(n,2) rows of 1 entry.
C4_PairCount ==
    \A p \in Inst :
        (constructed[p] /\ Len(bfs0[p]) >= 2) =>
            LET ps == bfs0[p]
                m == Len(ps)
            IN /\ Len(_combs[p]) = Choose2(m)
               /\ \A i, j \in 1..m :
                    i < j =>
                      Cardinality({k \in 1..Len(_combs[p]) :
                          {_combs[p][k][1].id, _combs[p][k][2].id} = {ps[i].id, ps[j].id}}) = 1
               /\ Called(p) =>
                    /\ Returned(p)
                    /\ Len(A[p]) = 3 * Choose2(m)
                    /\ \A k \in 1..Len(A[p]) : Len(A[p][k]) = 3
                    /\ Len(b[p]) = 3 * Choose2(m)
                    /\ \A k \in 1..Len(b[p]) : Len(b[p][k]) = 1

C4_Witness ==
    \E p \in Inst :
        /\ Returned(p)
        /\ Len(bfs0[p]) >= 3
        /\ \E i, j \in 1..Len(bfs0[p]) :
             /\ i < j
             /\ bfs0[p][i].orient = bfs0[p][j].orient
             /\ bfs0[p][i].pos = bfs0[p][j].pos

\* --------------------------------------------------------------------- C5
\* The sum over the poses ps of (Ri f + ti) - t, cleared of denominators.
MeanResidual(ps, f, t) ==
    LET Term(i) == VecSub(VecScale(t.den, VecAdd(MatVec(ps[i].orient, f.num),
                                                  VecScale(f.den, ps[i].pos))),
                          VecScale(f.den, t.num))
        Coord(c) == SumSeq([i \in 1..Len(ps) |-> Term(i)[c]])
    IN <<Coord(1), Coord(2), Coord(3)>>

\* C5: the returned Bt is the mean of Ri Ft + ti over all poses of the list,
\* Ft being the offset returned by the same call: the deviations of the n
\* points from Bt sum to zero.
C5_PivotIsMean ==
    \A p \in Inst :
        Returned(p) =>
            /\ outcome[p].val[2].den > 0
            /\ MeanResidual(bfs, outcome[p].val[1], outcome[p].val[2]) = ZeroVec

C5_Witness ==
    \E p \in Inst :
        /\ Returned(p)
        /\ n >= 3
        /\ Apply(bfs[1], ft[p][1]) # Apply(bfs[n], ft[p][1])
        /\ Apply(bfs[1], ft[p][1]) # Apply(bfs[2], ft[p][1])

C7_Frame ==
    [][/\ (constructed' # constructed \/ calls' # calls) => bfs' = bfs
       /\ \A p \in Inst :
            calls'[p] # calls[p] =>
               /\ _combs' = _combs
               /\ constructed' = constructed
               /\ \A q \in Inst \ {p} : ft'[q] = ft[q] /\ bt'[q] = bt[q]]_vars

C7_Witness ==
    \E p \in Inst :
        /\ Returned(p)
        /\ calls[p] = MaxCalls
        /\ n >= 2
        /\ bfs = bfs0[p]
        /\ bfs # Reverse(bfs)

\* --------------------------------------------------------------------- C8
\* C8: a repeated call on an instance ends as its first call did and leaves
\* the same ft and bt stored; two instances over the same list end alike.
C8_RetrySame ==
    \A p \in Inst :
        /\ calls[p] >= 2 => (outcome[p] = first[p] /\ ft[p] \o bt[p] = first[p].val)
        /\ \A q \in Inst : (Called(p) /\ Called(q)) => outcome[p] = outcome[q]

C8_Witness ==
    \E p \in Inst :
        /\ calls[p] >= 2
        /\ Returned(p)
        /\ ft[p][1].num # ZeroVec

\* --------------------------------------------------------------------- C9
\* A has a null direction: some direction is mapped alike by every rotation.
RankDeficient(ps) ==
    \E v \in Dirs : \A i, j \in 1..Len(ps) : MatVec(ps[i].orient, v) = MatVec(ps[j].orient, v)

SameRotation(ps) == \A i, j \in 1..Len(ps) : ps[i].orient = ps[j].orient

\* A^T (den b - A num), the least-squares residual of x = num / den.
NormalResidual(Am, bm, x) ==
    LET Coord(r) == SumSeq([k \in 1..Len(Am) |->
                        Am[k][r] * (x.den * bm[k][1] - Dot(Am[k], x.num))])
    IN <<Coord(1), Coord(2), Coord(3)>>

RECURSIVE PosSum(_)
PosSum(ps) == IF ps = <<>> THEN ZeroVec ELSE VecAdd(Head(ps).pos, PosSum(Tail(ps)))

\* C9: for n >= 2 poses with a rank-deficient A a call raises nothing and
\* returns, like any other call, the least-squares solution of minimum norm
\* (orthogonal to the null directions of A); when all rotations are equal, A
\* is zero, Ft is zero and Bt is the mean of the translations.
C9_SilentDegradation ==
    \A p \in Inst :
        (Called(p) /\ Len(bfs0[p]) >= 2 /\ RankDeficient(bfs0[p])) =>
            /\ outcome[p].kind = "return"
            /\ outcome[p].exc = ""
            /\ outcome[p].val = <<ft[p][1], bt[p][1]>>
            /\ NormalResidual(A[p], b[p], ft[p][1]) = ZeroVec
            /\ \A v \in Dirs :
                 (\A k \in 1..Len(A[p]) : Dot(A[p][k], v) = 0) => Dot(v, ft[p][1].num) = 0
            /\ SameRotation(bfs0[p]) =>
                 /\ \A k \in 1..Len(A[p]) : A[p][k] = ZeroVec
                 /\ ft[p][1] = IntVec(ZeroVec)
                 /\ VecScale(n, bt[p][1].num) = VecScale(bt[p][1].den, PosSum(bfs))

C9_Witness ==
    \E p \in Inst :
        /\ Returned(p)
        /\ n >= 3
        /\ RankDeficient(bfs0[p])
        /\ ~SameRotation(bfs0[p])
        /\ Noiseless
        /\ ft[p][1] # IntVec(TrueFt)
        /\ ft[p][1].num # ZeroVec

\* -------------------------------------------------------------------- C10
Ids(ps) == {ps[i].id : i \in 1..Len(ps)}
PairIds(cs) == UNION {{cs[k][1].id, cs[k][2].id} : k \in 1..Len(cs)}

\* The least-squares residual of x over all pairs i < j of the poses ps.
PairsResidual(ps, x) ==
    LET D(i, j) == MatSub(ps[i].orient, ps[j].orient)
        E(i, j) == VecSub(VecScale(x.den, VecSub(ps[j].pos, ps[i].pos)),
                          MatVec(D(i, j), x.num))
        Term(i, j) == IF i < j THEN MatVec(MatT(D(i, j)), E(i, j)) ELSE ZeroVec
        Coord(c) == SumSeq([i \in 1..Len(ps) |-> SumSeq([j \in 1..Len(ps) |-> Term(i, j)[c]])])
    IN <<Coord(1), Coord(2), Coord(3)>>

\* C10: edits of the caller's list leave the stored pairs alone; a returning
\* call solves Ft from the pairs of the list as it was at construction and
\* averages Bt over the list as it is at the call, so the poses in the pair
\* equations are those in the average only if the list is as it was.
C10_Snapshot ==
    [][/\ bfs' # bfs => _combs' = _combs
       /\ \A p \in Inst :
            (calls'[p] # calls[p] /\ outcome'[p].kind = "return") =>
               /\ PairIds(_combs[p]) = Ids(bfs0[p])
               /\ PairsResidual(bfs0[p], ft'[p][1]) = ZeroVec
               /\ MeanResidual(bfs, ft'[p][1], bt'[p][1]) = ZeroVec
               /\ PairIds(_combs[p]) = Ids(bfs) => bfs = bfs0[p]]_vars

C10_Witness ==
    \E p \in Inst :
        /\ Returned(p)
        /\ nmut > 0
        /\ Ids(bfs) # Ids(bfs0[p])
        /\ MeanResidual(bfs, ft[p][1], bt[p][1]) = ZeroVec
        /\ MeanResidual(bfs0[p], ft[p][1], bt[p][1]) # ZeroVec
        /\ PairsResidual(bfs0[p], ft[p][1]) = ZeroVec
        /\ PairsResidual(bfs, ft[p][1]) # ZeroVec

====
